---- MODULE Spec2Model ----
(***************************************************************************)
(* SmugDups: duplicate grouping and the relocation of unwanted copies to   *)
(* a review album through the SmugMug API.                                 *)
(*                                                                         *)
(* The module models                                                       *)
(*   - DuplicateGroupWidget (gui/duplicate_widget.py): the keep flags of   *)
(*     one duplicate group and the action that starts a relocation;        *)
(*   - EnhancedPhotoCopyMoveOperations.process_duplicates_for_review       *)
(*     (operations/enhanced_photo_copy_move.py): the per-photo loop;       *)
(*   - SmugMugCopyOperations.copy_image_to_album and the methods it calls  *)
(*     (operations/smugmug_copy_operations.py), one action per remote call;*)
(*   - SmugMugAlbumOperations.find_or_create_review_album                  *)
(*     (operations/smugmug_album_operations.py);                           *)
(*   - DuplicateFinderThread._find_duplicate_groups                        *)
(*     (core/duplicate_finder.py) as a pure operator.                      *)
(* The remote service is the environment: every response of a remote call  *)
(* is a nondeterministic choice.                                           *)
(***************************************************************************)
EXTENDS Integers, Sequences, FiniteSets, TLC

\* Largest duplicate group the widget shows.
MaxPhotos == 3
\* Largest number of dictionary records in a batch handed to the engine directly.
MaxDictPhotos == 2
\* Largest gap, in days, between the taken and the uploaded timestamp.
MaxGapDays == 366
\* Largest number of days the uploaded timestamp lies before the taken one.
MaxEarlyDays == 2
\* Most lookups of the review album in one behaviour, and days they spread over.
MaxRuns == 3
MaxDays == 2
\* Longest list of image rows handed to _find_duplicate_groups.
MaxRows == 5
\* Number of distinct non-empty md5 hashes among the rows.
MaxHashes == 3
\* sys.getrecursionlimit(), counted in nested _make_request calls.
RecursionLimit == 3
\* Albums selected for a scan.
MaxAlbums == 2

\* image_id 0 stands for a missing or empty image id ('' in the source).
NoImageId == 0
\* md5_hash 0 stands for a missing or empty hash ('' in the source).
NoHash == 0

VARIABLES
    duplicates,         \* DuplicateGroupWidget.duplicates: <<[image_id, keep]>>
    buttons_enabled,    \* the Move/Delete buttons of the widget are enabled
    radio_checked,      \* index of the checked radio button of the button group
    pc,                 \* position of the relocation session
    batch,              \* duplicate_groups argument: <<group>>, group = <<[image_id]>>
    review_album,       \* the descriptor find_or_create_review_album returned
    group_num,          \* enumerate(duplicate_groups, 1)
    photo_idx,          \* position of `for photo in group`
    total_images, successful_copies, failed_copies,
    group_result,       \* the dict of the group being processed
    group_results,      \* the list of finished group dicts
    result,             \* what process_duplicates_for_review returned
    image_id,           \* the photo copy_image_to_album is working on
    image_details,      \* what get_image_details returned for it
    uri_i, fmt_j,       \* loop indices of _copy_via_collect_multiple_formats
    fatal_answered,     \* a collect request for image_id got a fatal error code
    calls,              \* remote calls issued so far for image_id, in order
    review_images,      \* remote: image ids listed in the review album
    source_images,      \* remote: image ids still in their source album
    cancel_requested,   \* environment: the user asked to cancel the batch
    cancel_at,          \* number of photos started when cancel was requested
    all_images,         \* argument of _find_duplicate_groups: <<row>>
    duplicate_groups,   \* its return value: <<group>>, group = <<DuplicatePhoto>>
    photo,              \* a DuplicatePhoto whose methods are called directly
    today,              \* datetime.now(), as a day number
    account_albums,     \* remote: the albums of the account, in listing order
    albums_seen,        \* what get_user_albums returned to the last lookup
    created,            \* the albums lookups created: [key, day]
    create_response,    \* the answer to the last lookup's creation request
    runs,               \* number of lookups so far
    score,              \* what get_quality_score / get_date_comparison returned
    gw_pc,              \* position of a _make_request call of the gateway
    gw_method,          \* its method argument
    gw_depth,           \* nested _make_request calls on the stack
    gw_log,             \* status codes of the HTTP responses it got, in order
    gw_backoffs,        \* number of 5 second waits (time.sleep(5))
    gw_result,          \* what the outermost _make_request returned
    feedback,           \* the last show_feedback(message, success) of the widget
    processed,          \* the group header reads PROCESSED
    skipped,            \* the group header reads SKIPPED
    skip_enabled,       \* the Skip button of the widget is enabled
    photos_to_delete,   \* delete_selected_action: the members to delete
    delete_idx,         \* position of `for photo in photos_to_delete`
    attempt,            \* position of `for attempt in range(max_retries)`
    deletion_results,   \* its list of (photo, success, error)
    delete_requests,    \* image keys of the DELETE requests it sent, in order
    in_flight,          \* requests sent whose response has not been taken yet
    scan_pc,            \* position of the DuplicateFinderThread
    scan_left           \* albums the scan thread still has to read

vars == <<duplicates, buttons_enabled, radio_checked, pc, batch, review_album, group_num,
          photo_idx, total_images, successful_copies, failed_copies, group_result,
          group_results, result, image_id, image_details, uri_i, fmt_j, fatal_answered, calls,
          review_images, source_images, cancel_requested, cancel_at,
          all_images, duplicate_groups, photo, score, today, account_albums,
          albums_seen, created, create_response, runs,
          gw_pc, gw_method, gw_depth, gw_log, gw_backoffs, gw_result,
          feedback, processed, skipped, skip_enabled, photos_to_delete,
          delete_idx, attempt, deletion_results, delete_requests,
          in_flight, scan_pc, scan_left>>

widget_vars == <<duplicates, buttons_enabled, radio_checked>>
counter_vars == <<total_images, successful_copies, failed_copies>>
gateway_vars == <<gw_pc, gw_method, gw_depth, gw_log, gw_backoffs, gw_result>>
delete_vars == <<photos_to_delete, delete_idx, attempt, deletion_results,
                 delete_requests>>
\* What the widget shows of an action, and the Delete action's locals.
action_vars == <<feedback, processed, skipped, skip_enabled, delete_vars>>
\* The account as the album lookup sees it; with it, what neither the engine
\* nor the finder touches.
thread_vars == <<in_flight, scan_pc, scan_left>>
locator_vars == <<today, account_albums, albums_seen, created, create_response, runs,
                  gateway_vars, action_vars, thread_vars>>
finder_vars == <<all_images, duplicate_groups, photo, score, locator_vars>>
cancel_vars == <<cancel_requested, cancel_at>>

----------------------------------------------------------------------------
(* Helpers *)

Range(s) == {s[i] : i \in 1..Len(s)}

RECURSIVE SelectSeq2(_, _)
\* [x for x in s if Test(x)] for the keep flag: the members with keep = want.
SelectSeq2(s, want) ==
    IF s = <<>> THEN <<>>
    ELSE IF Head(s).keep = want
         THEN <<Head(s)>> \o SelectSeq2(Tail(s), want)
         ELSE SelectSeq2(Tail(s), want)

ImageIds(s) == [i \in 1..Len(s) |-> s[i].image_id]

----------------------------------------------------------------------------
(* DuplicatePhoto: core/models.py *)

KiB == 1024
MiB == 1024 * 1024

\* Seconds in one step of the model's clock: timestamps count half hours.
TimeUnit == 1800
SecondsPerHour == 3600
SecondsPerDay == 86400

\* A date string: how it is written and the instant it names.  "empty" is '',
\* "blank" is white space, "garbage" does not parse, "iso_z" is
\* 2024-03-15T18:30:42Z, "iso" is 2024-03-15T18:30:42, "plain" is
\* 2024-03-15 18:30:42.
DateString(form, t) == [form |-> form, t |-> t]
NoDate == DateString("empty", 0)

\* datetime objects: tz is "aware" or "naive"; None is NoDatetime.
NoDatetime == [tz |-> "none", t |-> 0]

\* Lines 166-186.
parse_date(date_string) ==
    IF date_string.form = "iso_z" THEN [tz |-> "aware", t |-> date_string.t]
    ELSE IF date_string.form \in {"iso", "plain"}
    THEN [tz |-> "naive", t |-> date_string.t]
    ELSE NoDatetime

\* A string field: "" (empty), " " (white space only) or a text.
has_text(string) == string \notin {"", " "}

\* Lines 58-60, 108-110, 123-125, 138-140, 162-164.
has_location(p) == p.latitude # "None" /\ p.longitude # "None"
has_title(p) == has_text(p.title)
has_caption(p) == has_text(p.caption)
has_keywords(p) == has_text(p.keywords)
has_date_taken(p) == p.date_taken.form \notin {"empty", "blank"}

\* The dict get_date_comparison starts from (lines 202-209).
DateComparison(has_both, days, status) ==
    [has_both_dates |-> has_both, difference_days |-> days, status |-> status,
     raised |-> FALSE]

\* Line 221, datetime subtraction of an aware and a naive value: TypeError.
DateComparisonRaises ==
    [has_both_dates |-> TRUE, difference_days |-> 0, status |-> "TypeError",
     raised |-> TRUE]

\* Lines 197-253.
get_date_comparison(p) ==
    LET date_taken_dt == parse_date(p.date_taken)
        date_uploaded_dt == parse_date(p.date_uploaded)
        has_both_dates == date_taken_dt # NoDatetime /\ date_uploaded_dt # NoDatetime
        diff == (date_uploaded_dt.t - date_taken_dt.t) * TimeUnit
        days == diff \div SecondsPerDay
        hours == (diff % SecondsPerDay) \div SecondsPerHour
    IN  IF ~has_both_dates THEN DateComparison(FALSE, 0, "unknown")
        ELSE IF date_taken_dt.tz # date_uploaded_dt.tz THEN DateComparisonRaises
        ELSE IF days = 0
             THEN IF hours = 0 THEN DateComparison(TRUE, days, "immediate")
                  ELSE DateComparison(TRUE, days, "same_day")
        ELSE IF days = 1 THEN DateComparison(TRUE, days, "recent")
        ELSE IF days < 7 THEN DateComparison(TRUE, days, "recent")
        ELSE IF days < 30 THEN DateComparison(TRUE, days, "delayed")
        ELSE IF days < 365 THEN DateComparison(TRUE, days, "very_delayed")
        ELSE DateComparison(TRUE, days, "archived")

\* Lines 268-274.
size_bonus(size) ==
    IF size > 5 * MiB THEN 3
    ELSE IF size > 1 * MiB THEN 2
    ELSE IF size > 500 * KiB THEN 1
    ELSE 0

\* Lines 288-294.
timing_bonus(date_comp) ==
    IF date_comp.has_both_dates
    THEN IF date_comp.status \in {"immediate", "same_day"} THEN 3
         ELSE IF date_comp.status = "recent" THEN 1
         ELSE 0
    ELSE 0

\* Lines 264-296; the value returned when get_date_comparison does not raise.
get_quality_score(p) ==
    size_bonus(p.size)
    + (IF has_title(p) THEN 2 ELSE 0)
    + (IF has_caption(p) THEN 2 ELSE 0)
    + (IF has_keywords(p) THEN 1 ELSE 0)
    + (IF has_date_taken(p) THEN 1 ELSE 0)
    + (IF has_location(p) THEN 1 ELSE 0)
    + timing_bonus(get_date_comparison(p))

\* Line 289: an exception of get_date_comparison leaves get_quality_score.
get_quality_score_raises(p) == get_date_comparison(p).raised

\* DuplicatePhoto(...) with the dataclass defaults (lines 12-35).
DuplicatePhoto(id, hash, size) ==
    [image_id |-> id, md5_hash |-> hash, size |-> size, keep |-> FALSE,
     title |-> "", caption |-> "", keywords |-> "",
     date_taken |-> NoDate, date_uploaded |-> NoDate,
     latitude |-> "None", longitude |-> "None"]

NoPhoto == DuplicatePhoto(0, 0, 0)
NoScore == [score |-> 0, date_comparison |-> DateComparison(FALSE, 0, "unknown"),
            raised |-> FALSE]

----------------------------------------------------------------------------
(* Review Album Locator: operations/smugmug_album_operations.py *)

\* An album of the account listing: its key and the words of its name as
\* they are written.
Album(id, words) == [id |-> id, words |-> words]

\* str.lower() on the words a name is made of.
lower(word) ==
    CASE word = "SmugDups" -> "smugdups"
      [] word = "Review" -> "review"
      [] word = "REVIEW" -> "review"
      [] word = "Duplicate" -> "duplicate"
      [] OTHER -> word

\* Line 46: album.get('name', '').lower(), as the set of words it contains.
album_name_lower(album) == {lower(word) : word \in album.words}

\* What the account may hold when a session starts.
AlbumListings ==
    { <<>>,
      <<Album("A1", {"Holiday"})>>,
      <<Album("A1", {"Review"}), Album("A2", {"SmugDups", "Review"})>>,
      <<Album("A1", {"Duplicate", "REVIEW"}), Album("A2", {"smugdups", "review"})>> }

\* What the album-creation POST may be answered with.
CreateResponses == {"created", "ok_without_key", "rejected", "exception"}

\* An album or URL name built from a text and a date stamp (lines 75-78);
\* date stamp 0: the name carries no date.
Name(text, date_stamp) == [text |-> text, date_stamp |-> date_stamp]
NoName == Name("", 0)

Descriptor(key, method, manual) ==
    [album_key |-> key, method |-> method, manual_creation_needed |-> manual,
     instructions |-> "", suggested_album_name |-> NoName,
     suggested_url_name |-> NoName]

\* Python's None for a descriptor.
NoDescriptor == Descriptor("None", "none", FALSE)

\* Lines 47-48.
is_review_album(album) ==
    \/ ("smugdups" \in album_name_lower(album) /\ "review" \in album_name_lower(album))
    \/ ("duplicate" \in album_name_lower(album) /\ "review" \in album_name_lower(album))

find_existing_smugdups_album_last_match(albums) ==
    LET smugdups_albums == SelectSeq(albums, is_review_album)
    IN  IF smugdups_albums # <<>>
        THEN Descriptor(smugdups_albums[Len(smugdups_albums)].id, "found_existing", FALSE)
        ELSE NoDescriptor

\* Lines 38-69.
find_existing_smugdups_album(albums) ==
    LET smugdups_albums == SelectSeq(albums, is_review_album)
    IN  IF smugdups_albums # <<>>
        THEN Descriptor(smugdups_albums[1].id, "found_existing", FALSE)
        ELSE NoDescriptor

\* Lines 95-179: a descriptor only for a 200/201 answer that carries an
\* album key.
create_album_working_method(response, key) ==
    IF response = "created"
    THEN Descriptor(key, "api_creation_working", FALSE)
    ELSE NoDescriptor

provide_manual_creation_instructions_without_names(album_name, url_name) ==
    [Descriptor("None", "manual_required", TRUE) EXCEPT
        !.instructions = "MANUAL ALBUM CREATION REQUIRED"]

\* Lines 181-209.
provide_manual_creation_instructions(album_name, url_name) ==
    [Descriptor("None", "manual_required", TRUE) EXCEPT
        !.instructions = "MANUAL ALBUM CREATION REQUIRED",
        !.suggested_album_name = album_name,
        !.suggested_url_name = url_name]

\* Lines 71-93; date_stamp is datetime.now() as %Y%m%d.
create_new_review_album_working(response, key, date_stamp) ==
    LET album_name == Name("SmugDups Review", date_stamp)
        url_name == Name("SmugDups-review", date_stamp)
        album_info == create_album_working_method(response, key)
    IN  IF album_info # NoDescriptor THEN album_info
        ELSE provide_manual_creation_instructions(album_name, url_name)

\* Lines 21-36.
find_or_create_review_album(albums, response, key, date_stamp) ==
    LET existing_album == find_existing_smugdups_album(albums)
    IN  IF existing_album # NoDescriptor THEN existing_album
        ELSE create_new_review_album_working(response, key, date_stamp)

\* The remote calls find_or_create_review_album issues, in order.
Call(kind) == [kind |-> kind, album |-> "", listing |-> {}]

locator_calls(albums) ==
    IF find_existing_smugdups_album(albums) # NoDescriptor
    THEN <<Call("get_user_albums")>>
    ELSE <<Call("get_user_albums"), Call("create_album")>>

----------------------------------------------------------------------------
(* DuplicateGroupWidget: gui/duplicate_widget.py *)

selected_count(dups) == Cardinality({i \in 1..Len(dups) : dups[i].keep})

photos_to_move_everything(dups) == dups

\* Lines 699-717: which photos the Move action hands to the engine.
photos_to_move(dups) ==
    IF selected_count(dups) = 1 THEN SelectSeq2(dups, FALSE) ELSE dups

on_radio_toggled_without_clearing(index) ==
    /\ pc = "idle"
    /\ index \in 1..Len(duplicates)
    /\ index # radio_checked
    /\ radio_checked' = index
    /\ duplicates' = [duplicates EXCEPT ![index].keep = TRUE]
    /\ UNCHANGED <<buttons_enabled, pc, batch, review_album, group_num, photo_idx,
                   counter_vars, group_result, group_results, result, image_id,
                   image_details, uri_i, fmt_j, fatal_answered, calls,
                   review_images, source_images, cancel_vars, finder_vars>>

\* Lines 214-236, for toggled(checked=True) of radio button `index`: the
\* signal of the button the user selects, which was not the checked one.
on_radio_toggled(index) ==
    /\ pc = "idle"
    /\ index \in 1..Len(duplicates)
    /\ index # radio_checked
    /\ radio_checked' = index
    /\ duplicates' = [i \in 1..Len(duplicates) |->
                         [duplicates[i] EXCEPT !.keep = (i = index)]]
    /\ UNCHANGED <<buttons_enabled, pc, batch, review_album, group_num, photo_idx,
                   counter_vars, group_result, group_results, result, image_id,
                   image_details, uri_i, fmt_j, fatal_answered, calls, review_images, source_images,
                   cancel_vars, finder_vars>>

\* Lines 873-892: every keep flag is cleared, the header reads SKIPPED, and
\* every push button but Skip is disabled; the radio buttons stay enabled,
\* and the checked button of an exclusive QButtonGroup stays checked on
\* setChecked(False).
skip_group_action ==
    /\ pc = "idle"
    /\ skip_enabled
    /\ duplicates' = [i \in 1..Len(duplicates) |->
                         [duplicates[i] EXCEPT !.keep = FALSE]]
    /\ buttons_enabled' = FALSE
    /\ skipped' = TRUE
    /\ UNCHANGED <<radio_checked, pc, batch, review_album, group_num, photo_idx,
                   counter_vars, group_result, group_results, result, image_id,
                   image_details, uri_i, fmt_j, fatal_answered, calls,
                   review_images, source_images, cancel_vars, all_images,
                   duplicate_groups, photo, score, today, account_albums,
                   albums_seen, created, create_response, runs, gateway_vars,
                   feedback, processed, skip_enabled, delete_vars, thread_vars>>

move_selected_to_review_action ==
    /\ pc = "idle"
    /\ buttons_enabled
    /\ photos_to_move(duplicates) # <<>>
    /\ batch' = << [i \in 1..Len(photos_to_move(duplicates)) |->
                       [image_id |-> photos_to_move(duplicates)[i].image_id]] >>
    /\ pc' = "setup"
    /\ UNCHANGED <<widget_vars, review_album, group_num, photo_idx,
                   counter_vars, group_result, group_results, result, image_id,
                   image_details, uri_i, fmt_j, fatal_answered, calls, review_images, source_images,
                   cancel_vars, finder_vars>>

----------------------------------------------------------------------------
(* Remote service: the responses the gateway may give *)

\* get_image_details: None (request failed or not found), a response without the
\* expected keys (KeyError at smugmug_api.py:278), an Image dict without Uri
\* fields, an Image dict with Uri and Uris.Image, an Image dict whose Uris is
\* not a dict.
ImageDetailsResponses == {"none", "malformed", "bare", "with_uris", "bad_uris"}

\* get_album_info: None, a response without the expected keys, an album dict.
AlbumInfoResponses == {"none", "malformed", "ok"}

\* One answer to the collectimages POST: HTTP status (0: requests raised, e.g. a
\* timeout), whether the body parses as JSON, whether it has a 'Response'
\* key, its 'Code', and whether the service added the image to the album.
Response(status, json, has_response, code, applied) ==
    [status |-> status, json |-> json, has_response |-> has_response,
     code |-> code, applied |-> applied]

CollectResponses ==
    { Response(200, TRUE, TRUE, 0, TRUE),      \* OK and the image was collected
      Response(200, TRUE, TRUE, 0, FALSE),     \* OK and nothing happened
      Response(302, TRUE, TRUE, 0, FALSE),     \* not 200, JSON with 'Response'
      Response(400, TRUE, FALSE, 400, FALSE),  \* bad request for this shape
      Response(404, TRUE, FALSE, 5, FALSE),    \* invalid image
      Response(403, TRUE, FALSE, 403, FALSE),  \* permission denied
      Response(500, FALSE, FALSE, 0, FALSE),   \* not JSON
      Response(0, FALSE, FALSE, 0, FALSE) }    \* the request raised

\* get_album_images of the review album: its images, or [] when the request failed.
ListingResponses(images) == {images, {}}

----------------------------------------------------------------------------
(* SmugMugCopyOperations: operations/smugmug_copy_operations.py *)

\* Lines 507-517: the URI candidates built from the id and the image details,
\* each relative one also as a full URL.
clean_uris(details) == IF details = "with_uris" THEN 4 ELSE 2
all_uri_formats(details) == clean_uris(details) + clean_uris(details)

\* Lines 523-527: the data formats tried per URI.
data_formats == 3

\* _make_collect_request (the definition in force, lines 559-604):
\* (success, response_data); data "None" or the parsed body.
make_collect_request(response) ==
    IF response.status = 0 THEN [success |-> FALSE, data |-> "None"]
    ELSE IF response.status \in {200, 201} THEN [success |-> TRUE, data |-> "None"]
    ELSE IF ~response.json THEN [success |-> FALSE, data |-> "None"]
    ELSE IF response.has_response /\ response.code # 400
         THEN [success |-> TRUE, data |-> "dict"]
         ELSE [success |-> FALSE, data |-> "dict"]

\* Lines 617-618: the codes _handle_collect_error lists as fatal_errors, in
\* a response body that was parsed.
fatal_errors == {4, 5, 15, 401, 403, 404}
is_fatal_error(response) ==
    /\ response.status # 0
    /\ response.json
    /\ response.code \in fatal_errors

\* _handle_collect_error: TRUE when the next format should be tried.
handle_collect_error(code) ==
    IF code \in fatal_errors THEN FALSE
    ELSE TRUE

\* Lines 539-547: the response ends the collect loop with a fatal error.
collect_is_fatal(response) ==
    /\ make_collect_request(response).data = "dict"
    /\ ~handle_collect_error(response.code)
    /\ response.code \in {4, 5, 15}

verify_image_in_album_trusting_status(id, listing) == TRUE

\* _verify_image_in_album: the image id is among the listed images.
verify_image_in_album(id, listing) == id \in listing

safe_copy_only_then_delete(found) ==
    [success |-> found,
     message |-> IF found THEN "copied_preserved" ELSE "verification_failed",
     followup |-> IF found THEN <<Call("delete_image")>> ELSE <<>>]

safe_copy_only_reporting_moved(found) ==
    [success |-> found,
     message |-> IF found THEN "moved" ELSE "verification_failed",
     followup |-> <<>>]

\* _safe_copy_only after a collect request was answered OK (lines 66-79): the
\* result for the outcome of the verification, and the remote calls that follow it.
safe_copy_only(found) ==
    [success |-> found,
     message |-> IF found THEN "copied_preserved" ELSE "verification_failed",
     followup |-> <<>>]

copy_image_to_album_reraises == [caught |-> FALSE, success |-> FALSE, message |-> "exception"]

\* copy_image_to_album, lines 53-54: except Exception -> (False, "Copy failed
\* with exception: ...").
copy_image_to_album_except == [caught |-> TRUE, success |-> FALSE, message |-> "exception"]

----------------------------------------------------------------------------
(* EnhancedPhotoCopyMoveOperations: operations/enhanced_photo_copy_move.py *)

success_rate_unscaled(successful, total) ==
    IF total > 0 THEN successful \div total ELSE 0

\* Lines 129 and 138: successful_copies / total_images * 100 (0 for an empty
\* batch) printed with one decimal and a percent sign, '66.7%'; the text is
\* held as its number of tenths of a percent, rounded to the nearest.
success_rate(successful, total) ==
    IF total > 0 THEN (2000 * successful + total) \div (2 * total) ELSE 0

NoResult ==
    [kind |-> "none", success |-> FALSE, manual_creation_needed |-> FALSE,
     instructions |-> "", suggested_album_name |-> NoName,
     total_images |-> 0, successful_copies |-> 0, failed_copies |-> 0,
     success_rate |-> 0, group_results |-> <<>>]

\* Lines 42-58: the failure dict returned without processing any photo.
refusal(album) ==
    [NoResult EXCEPT !.kind = "refused", !.manual_creation_needed = TRUE,
                     !.instructions = album.instructions,
                     !.suggested_album_name = album.suggested_album_name]

setup_proceeds_always(album) == FALSE

\* Lines 42 and 50: the session is refused when there is no usable review album.
setup_refuses(album) == album = NoDescriptor \/ album.manual_creation_needed

\* Lines 76-82.
new_group_result(num, group) ==
    [group_number |-> num, total_images |-> Len(group),
     successful_copies |-> 0, failed_copies |-> 0, image_results |-> <<>>]

\* Lines 100-120: the outcome of copy_image_to_album is recorded and counted.
RecordOutcome(success, message) ==
    /\ group_result' =
         [group_result EXCEPT
            !.image_results = Append(@, [image_id |-> image_id, success |-> success,
                                         message |-> message]),
            !.successful_copies = IF success THEN @ + 1 ELSE @,
            !.failed_copies = IF success THEN @ ELSE @ + 1]
    /\ successful_copies' = IF success THEN successful_copies + 1 ELSE successful_copies
    /\ failed_copies' = IF success THEN failed_copies ELSE failed_copies + 1
    /\ photo_idx' = photo_idx + 1
    /\ pc' = "loop"

\* The locals of copy_image_to_album and the log of the requests it issued
\* start empty with each call and are gone when the group's loop is left.
CopyLocalsFresh ==
    /\ calls' = <<>>
    /\ image_details' = "none"
    /\ uri_i' = 1
    /\ fmt_j' = 1
    /\ fatal_answered' = FALSE

\* An exception raised inside copy_image_to_album's try block.
RaiseInCopyImageToAlbum ==
    IF copy_image_to_album_except.caught
    THEN RecordOutcome(copy_image_to_album_except.success,
                       copy_image_to_album_except.message)
    ELSE /\ pc' = "raised"
         /\ UNCHANGED <<group_result, successful_copies, failed_copies, photo_idx>>

\* What the engine never writes.
outside_vars == <<duplicates, buttons_enabled, radio_checked, batch, cancel_requested, cancel_at,
                  all_images, duplicate_groups, photo, score, locator_vars>>

\* Lines 39-71: the review album is set up; the session is refused without one.
SetUpReviewAlbum ==
    /\ pc = "setup"
    /\ \E albums \in AlbumListings, response \in CreateResponses :
         LET album == find_or_create_review_album(albums, response, "NEW", today)
         IN  /\ review_album' = album
             /\ calls' = locator_calls(albums)
             /\ IF setup_refuses(album)
                THEN /\ result' = refusal(album)
                     /\ pc' = "returned"
                ELSE /\ result' = result
                     /\ pc' = "groups"
    /\ group_num' = 1
    /\ total_images' = 0
    /\ successful_copies' = 0
    /\ failed_copies' = 0
    /\ group_results' = <<>>
    /\ UNCHANGED <<outside_vars, photo_idx, group_result, image_id, image_details,
                   uri_i, fmt_j, fatal_answered, review_images, source_images>>

\* Lines 73-82: the next group is started.
StartGroup ==
    /\ pc = "groups"
    /\ group_num <= Len(batch)
    /\ group_result' = new_group_result(group_num, batch[group_num])
    /\ photo_idx' = 1
    /\ pc' = "loop"
    /\ UNCHANGED <<outside_vars, review_album, group_num, counter_vars, group_results,
                   result, image_id, image_details, uri_i, fmt_j, fatal_answered, calls,
                   review_images, source_images>>

\* Lines 84-98 and 121-124: the next photo of the group; a record without an
\* image id is counted as failed on the spot.
BeginPhoto ==
    /\ pc = "loop"
    /\ photo_idx <= Len(batch[group_num])
    /\ total_images' = total_images + 1
    /\ IF batch[group_num][photo_idx].image_id # NoImageId
       THEN /\ image_id' = batch[group_num][photo_idx].image_id
            /\ CopyLocalsFresh
            /\ pc' = "details"
            /\ UNCHANGED <<failed_copies, group_result, photo_idx>>
       ELSE /\ failed_copies' = failed_copies + 1
            /\ group_result' = [group_result EXCEPT !.failed_copies = @ + 1]
            /\ photo_idx' = photo_idx + 1
            /\ UNCHANGED <<image_id, calls, image_details, uri_i, fmt_j, fatal_answered, pc>>
    /\ UNCHANGED <<outside_vars, review_album, group_num, successful_copies,
                   group_results, result, review_images, source_images>>

\* Line 126: the group's dict is appended.
EndGroup ==
    /\ pc = "loop"
    /\ photo_idx > Len(batch[group_num])
    /\ group_results' = Append(group_results, group_result)
    /\ group_num' = group_num + 1
    /\ pc' = "groups"
    /\ CopyLocalsFresh
    /\ UNCHANGED <<outside_vars, review_album, photo_idx, counter_vars, group_result,
                   result, image_id, review_images, source_images>>

\* Lines 128-155: the summary is returned.
ReturnSummary ==
    /\ pc = "groups"
    /\ group_num > Len(batch)
    /\ result' = [NoResult EXCEPT !.kind = "summary", !.success = TRUE,
                                  !.total_images = total_images,
                                  !.successful_copies = successful_copies,
                                  !.failed_copies = failed_copies,
                                  !.success_rate =
                                      success_rate(successful_copies, total_images),
                                  !.group_results = group_results]
    /\ pc' = "returned"
    /\ UNCHANGED <<outside_vars, review_album, group_num, photo_idx, counter_vars,
                   group_result, group_results, image_id, image_details, uri_i,
                   fmt_j, fatal_answered, calls, review_images, source_images>>

\* copy_image_to_album, lines 31-35.
GetImageDetails ==
    /\ pc = "details"
    /\ calls' = Append(calls, Call("get_image_details"))
    /\ \E response \in ImageDetailsResponses :
         IF response = "none"
         THEN RecordOutcome(FALSE, "image_not_found") /\ UNCHANGED image_details
         ELSE IF response = "malformed"
         THEN RaiseInCopyImageToAlbum /\ UNCHANGED image_details
         ELSE /\ image_details' = response
              /\ pc' = "album"
              /\ UNCHANGED <<group_result, successful_copies, failed_copies, photo_idx>>
    /\ UNCHANGED <<outside_vars, review_album, group_num, total_images, group_results,
                   result, image_id, uri_i, fmt_j, fatal_answered, review_images, source_images>>

\* copy_image_to_album, lines 38-42.
GetAlbumInfo ==
    /\ pc = "album"
    /\ calls' = Append(calls, Call("get_album_info"))
    /\ \E response \in AlbumInfoResponses :
         IF response = "none"
         THEN RecordOutcome(FALSE, "album_not_found") /\ UNCHANGED <<uri_i, fmt_j>>
         ELSE IF response = "malformed"
         THEN RaiseInCopyImageToAlbum /\ UNCHANGED <<uri_i, fmt_j>>
         ELSE /\ pc' = "collect"
              /\ uri_i' = 1
              /\ fmt_j' = 1
              /\ UNCHANGED <<group_result, successful_copies, failed_copies, photo_idx>>
    /\ UNCHANGED <<outside_vars, review_album, group_num, total_images, group_results,
                   result, image_id, image_details, fatal_answered,
                   review_images, source_images>>

\* _copy_via_collect_multiple_formats, lines 507-517, when the image details
\* cannot be read as expected: the exception is caught at lines 555-557, the
\* copy step fails and copy_image_to_album falls back to the manual message.
CollectSetupFails ==
    /\ pc = "collect"
    /\ image_details = "bad_uris"
    /\ pc' = "manual"
    /\ UNCHANGED <<outside_vars, review_album, group_num, photo_idx, counter_vars,
                   group_result, group_results, result, image_id, image_details,
                   uri_i, fmt_j, fatal_answered, calls, review_images, source_images>>

\* One pass of the inner loop of _copy_via_collect_multiple_formats (lines
\* 529-551) with its request (_make_collect_request).
CollectRequest ==
    /\ pc = "collect"
    /\ image_details # "bad_uris"
    /\ calls' = Append(calls, Call("collectimages"))
    /\ \E response \in CollectResponses :
         /\ fatal_answered' = (fatal_answered \/ is_fatal_error(response))
         /\ review_images' = IF response.applied THEN review_images \cup {image_id}
                             ELSE review_images
         /\ IF make_collect_request(response).success
            THEN pc' = "verify" /\ UNCHANGED <<uri_i, fmt_j>>
            ELSE IF collect_is_fatal(response)
            THEN pc' = "manual" /\ UNCHANGED <<uri_i, fmt_j>>
            ELSE IF fmt_j < data_formats
            THEN fmt_j' = fmt_j + 1 /\ UNCHANGED <<uri_i, pc>>
            ELSE IF uri_i < all_uri_formats(image_details)
            THEN uri_i' = uri_i + 1 /\ fmt_j' = 1 /\ UNCHANGED pc
            ELSE pc' = "manual" /\ UNCHANGED <<uri_i, fmt_j>>
    /\ UNCHANGED <<outside_vars, review_album, group_num, photo_idx, counter_vars,
                   group_result, group_results, result, image_id, image_details,
                   source_images>>

\* _safe_copy_only, lines 66-79, with _verify_image_in_album.
VerifyCopy ==
    /\ pc = "verify"
    /\ \E listing \in ListingResponses(review_images) :
         LET found == verify_image_in_album(image_id, listing)
             out == safe_copy_only(found)
         IN  /\ calls' = Append(calls, [kind |-> "get_album_images",
                                        album |-> "review",
                                        listing |-> listing]) \o out.followup
             /\ source_images' =
                  IF Call("delete_image") \in Range(out.followup)
                  THEN source_images \ {image_id} ELSE source_images
             /\ IF out.success
                THEN RecordOutcome(TRUE, out.message)
                ELSE /\ pc' = "manual"
                     /\ UNCHANGED <<group_result, successful_copies, failed_copies,
                                    photo_idx>>
    /\ UNCHANGED <<outside_vars, review_album, group_num, total_images, group_results,
                   result, image_id, image_details, uri_i, fmt_j, fatal_answered, review_images>>

\* copy_image_to_album, lines 49-51: _debug_api_response and
\* _provide_enhanced_manual_instructions (the definitions in force, lines
\* 685-751); the result is always a failure.
ManualFallback ==
    /\ pc = "manual"
    /\ \E response \in {"none", "malformed", "ok"} :
         /\ calls' = calls \o <<Call("debug_get_image"), Call("debug_get_album"),
                                Call("get_image_details")>>
                           \o (IF response = "malformed" THEN <<>>
                               ELSE <<Call("get_album_info")>>)
         /\ RecordOutcome(FALSE, IF response = "malformed" THEN "manual_error"
                                 ELSE "manual_required")
    /\ UNCHANGED <<outside_vars, review_album, group_num, total_images, group_results,
                   result, image_id, image_details, uri_i, fmt_j, fatal_answered, review_images,
                   source_images>>

Engine ==
    \/ SetUpReviewAlbum
    \/ StartGroup
    \/ BeginPhoto
    \/ EndGroup
    \/ ReturnSummary
    \/ GetImageDetails
    \/ GetAlbumInfo
    \/ CollectSetupFails
    \/ CollectRequest
    \/ VerifyCopy
    \/ ManualFallback

----------------------------------------------------------------------------
(* DuplicateGroupWidget: what the Move action shows of the engine's result *)

\* show_feedback(message, success): the message, the number it names, and
\* success as "True", "False" or "None" (processing).
Feedback(message, count, success) ==
    [message |-> message, count |-> count, success |-> success]

NoFeedback == Feedback("", 0, "None")

\* The keys of the summary dict (enhanced_photo_copy_move.py:131-140).
summary_keys ==
    {"success", "review_album", "total_groups", "total_images", "successful_copies",
     "failed_copies", "success_rate", "group_results"}

\* results.get(key, default) on the summary dict.
results_get(results, key, default) ==
    IF key \in summary_keys \cap DOMAIN results THEN results[key] ELSE default

\* Lines 749-783: the message for the counts the widget read.
move_feedback(successful, failed) ==
    IF successful > 0
    THEN IF failed > 0 THEN Feedback("moved_some", successful, "True")
         ELSE Feedback("moved_all", successful, "True")
    ELSE IF failed > 0 THEN Feedback("failed_to_move", failed, "False")
         ELSE Feedback("need_manual_moving", 0, "None")

\* show_feedback, lines 895-925, and mark_as_processed, lines 927-941: a
\* success message disables every push button of the widget.
ShowFeedback(message, is_processed) ==
    /\ feedback' = message
    /\ processed' = (processed \/ is_processed)
    /\ IF message.success = "True" \/ is_processed
       THEN buttons_enabled' = FALSE /\ skip_enabled' = FALSE
       ELSE UNCHANGED <<buttons_enabled, skip_enabled>>

\* move_selected_to_review_action, lines 730-789, once
\* process_duplicates_for_review has returned or raised.
show_move_results ==
    /\ pc \in {"returned", "raised"}
    /\ IF pc = "raised"
       THEN ShowFeedback(Feedback("move_error", 0, "False"), FALSE)
       ELSE IF ~result.success
       THEN ShowFeedback(Feedback("create_album_manually", 0, "False"), FALSE)
       ELSE LET successful == results_get(result, "successful_moves", 0)
                failed == results_get(result, "failed_moves", 0)
            IN  ShowFeedback(move_feedback(successful, failed), successful > 0)
    /\ pc' = "shown"
    /\ UNCHANGED <<duplicates, radio_checked, batch, review_album, group_num, photo_idx,
                   counter_vars, group_result, group_results, result, image_id,
                   image_details, uri_i, fmt_j, fatal_answered, calls,
                   review_images, source_images, cancel_vars, all_images,
                   duplicate_groups, photo, score, today, account_albums,
                   albums_seen, created, create_response, runs, gateway_vars,
                   skipped, delete_vars, thread_vars>>

----------------------------------------------------------------------------
(* The program as the GUI drives it *)

\* A duplicate group as _find_duplicate_groups hands it to the widget: n members
\* with distinct image ids, exactly one of them marked keep by
\* _apply_default_selection.
InitialGroups ==
    { [i \in 1..n |-> [image_id |-> i, keep |-> (i = k)]] :
        n \in 2..MaxPhotos, k \in 1..MaxPhotos } \ {<<>>}

InitCommon ==
    /\ buttons_enabled = TRUE
    /\ batch = <<>>
    /\ review_album = NoDescriptor
    /\ group_num = 1
    /\ photo_idx = 1
    /\ total_images = 0
    /\ successful_copies = 0
    /\ failed_copies = 0
    /\ group_result = new_group_result(0, <<>>)
    /\ group_results = <<>>
    /\ result = NoResult
    /\ image_id = NoImageId
    /\ image_details = "none"
    /\ uri_i = 1
    /\ fmt_j = 1
    /\ fatal_answered = FALSE
    /\ calls = <<>>
    /\ cancel_requested = FALSE
    /\ cancel_at = 0
    /\ duplicate_groups = <<>>
    /\ score = NoScore
    /\ today = 1
    /\ albums_seen = <<>>
    /\ created = {}
    /\ create_response = "none"
    /\ runs = 0
    /\ gw_pc = "idle"
    /\ gw_method = "GET"
    /\ gw_depth = 0
    /\ gw_log = <<>>
    /\ gw_backoffs = 0
    /\ gw_result = "None"
    /\ feedback = NoFeedback
    /\ processed = FALSE
    /\ skipped = FALSE
    /\ skip_enabled = TRUE
    /\ photos_to_delete = <<>>
    /\ delete_idx = 1
    /\ attempt = 0
    /\ deletion_results = <<>>
    /\ delete_requests = <<>>
    /\ in_flight = {}
    /\ scan_pc = "stopped"
    /\ scan_left = 0

Init ==
    /\ InitCommon
    /\ photo = NoPhoto
    /\ account_albums = <<>>
    /\ pc = "idle"
    /\ all_images = <<>>
    /\ duplicates \in {g \in InitialGroups : selected_count(g) = 1}
    /\ radio_checked = CHOOSE i \in 1..Len(duplicates) : duplicates[i].keep
    /\ source_images = Range(ImageIds(duplicates))
    /\ review_images \in {{}, {1}}

Next ==
    \/ \E index \in 1..MaxPhotos : on_radio_toggled(index)
    \/ skip_group_action
    \/ move_selected_to_review_action
    \/ Engine
    \/ show_move_results

Spec == Init /\ [][Next]_vars

----------------------------------------------------------------------------
(* The engine called with dictionary records *)

\* Lines 87-95: a record is a DuplicatePhoto or a dict; a dict may lack
\* 'image_id', which reads as ''.
DictRecords ==
    UNION { [1..n -> [image_id : {NoImageId} \cup 1..MaxDictPhotos]] :
              n \in 0..MaxDictPhotos }

\* Image ids are unique on the service; a record that has one is given the
\* id of its position.
DistinctIds(records) ==
    \A i \in 1..Len(records) : records[i].image_id \in {NoImageId, i}

\* The batches: no group, one group, or two groups, of records with distinct ids.
DictBatches ==
    {<<>>} \cup
    { <<records>> : records \in {r \in DictRecords : DistinctIds(r)} } \cup
    UNION { { <<[i \in 1..c |-> records[i]],
                [i \in 1..(Len(records) - c) |-> records[c + i]]>> :
                c \in 0..Len(records) } :
            records \in {r \in DictRecords : DistinctIds(r)} }

process_dict_batch ==
    /\ pc = "idle"
    /\ batch' \in DictBatches
    /\ pc' = "setup"
    /\ UNCHANGED <<widget_vars, review_album, group_num, photo_idx,
                   counter_vars, group_result, group_results, result, image_id,
                   image_details, uri_i, fmt_j, fatal_answered, calls, review_images, source_images,
                   cancel_vars, finder_vars>>

InitApi ==
    /\ InitCommon
    /\ photo = NoPhoto
    /\ account_albums = <<>>
    /\ pc = "idle"
    /\ all_images = <<>>
    /\ duplicates = <<>>
    /\ radio_checked = 0
    /\ source_images = 1..MaxDictPhotos
    /\ review_images = {}

NextApi == process_dict_batch \/ Engine

SpecApi == InitApi /\ [][NextApi]_vars

----------------------------------------------------------------------------
(* A cancellation request of the user while a batch runs *)

\* The request arrives between two photos; the count of photos started so far
\* is remembered.
RequestCancel ==
    /\ pc = "loop"
    /\ ~cancel_requested
    /\ cancel_requested' = TRUE
    /\ cancel_at' = total_images
    /\ UNCHANGED <<widget_vars, pc, batch, review_album, group_num, photo_idx,
                   counter_vars, group_result, group_results, result, image_id,
                   image_details, uri_i, fmt_j, fatal_answered, calls, review_images, source_images,
                   finder_vars>>

NextCancel == Next \/ RequestCancel

SpecCancel == Init /\ [][NextCancel]_vars

----------------------------------------------------------------------------
(* DuplicateFinderThread._find_duplicate_groups: core/duplicate_finder.py *)

Hashes == 1..MaxHashes

\* ArchivedSize of the rows: one above and one below the 5 MiB rule.
RowSizes == {2 * MiB, 6 * MiB}

\* The rows get_album_images delivered: image_id is the row's position.
RowValues ==
    [md5_hash : Hashes, size : RowSizes] \cup [md5_hash : {NoHash}, size : {2 * MiB}]



EmptyMd5Groups == [keys |-> <<>>, images |-> [h \in Hashes |-> <<>>]]

RECURSIVE group_by_md5(_, _, _)
\* Lines 65-71: md5_groups after the rows from position i on were read; keys
\* holds the dict's keys in insertion order.
group_by_md5(rows, i, md5_groups) ==
    IF i > Len(rows) THEN md5_groups
    ELSE LET md5_hash == rows[i].md5_hash
         IN  IF md5_hash # NoHash
             THEN LET keys == IF md5_hash \in Range(md5_groups.keys)
                              THEN md5_groups.keys
                              ELSE Append(md5_groups.keys, md5_hash)
                      image == [image_id |-> i, md5_hash |-> md5_hash,
                                size |-> rows[i].size]
                  IN  group_by_md5(rows, i + 1,
                          [keys |-> keys,
                           images |-> [md5_groups.images EXCEPT
                                          ![md5_hash] = Append(@, image)]])
             ELSE group_by_md5(rows, i + 1, md5_groups)

is_duplicate_group_of_one(images) == Len(images) > 0

\* Line 78.
is_duplicate_group(images) == Len(images) > 1

\* Lines 118-121: one (score, i, duplicate) tuple per member.
scored_duplicates(dups) ==
    [i \in 1..Len(dups) |->
        [score |-> get_quality_score(dups[i]), index |-> i, size |-> dups[i].size]]

sort_key_before_ignoring_size(a, b) == a.score > b.score

\* Line 144: key=lambda x: (x[0], x[2].size), reverse=True; a goes before b.
sort_key_before(a, b) ==
    a.score > b.score \/ (a.score = b.score /\ a.size > b.size)

RECURSIVE insert_sorted(_, _)
\* The stable sort of line 144, one insertion: x goes behind every element
\* that does not come after it.
insert_sorted(sorted, x) ==
    IF sorted = <<>> THEN <<x>>
    ELSE IF sort_key_before(x, Head(sorted))
         THEN <<x>> \o sorted
         ELSE <<Head(sorted)>> \o insert_sorted(Tail(sorted), x)

RECURSIVE sort_scored(_, _)
sort_scored(scored, n) ==
    IF n = 0 THEN <<>>
    ELSE insert_sorted(sort_scored(scored, n - 1), scored[n])

apply_default_selection_keeping_flags(dups) ==
    IF dups = <<>> THEN dups
    ELSE LET best == sort_scored(scored_duplicates(dups), Len(dups))[1]
         IN  [i \in 1..Len(dups) |->
                [dups[i] EXCEPT !.keep = (i = best.index) \/ dups[i].keep]]

\* Lines 110-154, when no get_quality_score call raises.
apply_default_selection(dups) ==
    IF dups = <<>> THEN dups
    ELSE LET best == sort_scored(scored_duplicates(dups), Len(dups))[1]
         IN  [i \in 1..Len(dups) |-> [dups[i] EXCEPT !.keep = (i = best.index)]]

\* Line 120: an exception of get_quality_score leaves _apply_default_selection
\* before any keep flag is written.
apply_default_selection_raises(dups) ==
    \E i \in 1..Len(dups) : get_quality_score_raises(dups[i])

\* Lines 80-102: the DuplicatePhoto objects of one hash.
duplicates_of(images) ==
    [m \in 1..Len(images) |->
        DuplicatePhoto(images[m].image_id, images[m].md5_hash, images[m].size)]

RECURSIVE collect_duplicate_groups_newest_first(_, _)
collect_duplicate_groups_newest_first(keys, images) ==
    IF keys = <<>> THEN <<>>
    ELSE IF is_duplicate_group(images[Head(keys)])
         THEN collect_duplicate_groups_newest_first(Tail(keys), images)
                  \o <<apply_default_selection(duplicates_of(images[Head(keys)]))>>
         ELSE collect_duplicate_groups_newest_first(Tail(keys), images)

RECURSIVE collect_duplicate_groups(_, _)
\* Lines 76-106: one group per key with more than one image, in key order,
\* each with its default selection.
collect_duplicate_groups(keys, images) ==
    IF keys = <<>> THEN <<>>
    ELSE IF is_duplicate_group(images[Head(keys)])
         THEN <<apply_default_selection(duplicates_of(images[Head(keys)]))>>
                  \o collect_duplicate_groups(Tail(keys), images)
         ELSE collect_duplicate_groups(Tail(keys), images)

find_duplicate_groups(rows) ==
    LET md5_groups == group_by_md5(rows, 1, EmptyMd5Groups)
    IN  collect_duplicate_groups(md5_groups.keys, md5_groups.images)

FindDuplicateGroups ==
    /\ pc = "scanned"
    /\ duplicate_groups' = find_duplicate_groups(all_images)
    /\ pc' = "grouped"
    /\ UNCHANGED <<widget_vars, batch, review_album, group_num, photo_idx,
                   counter_vars, group_result, group_results, result, image_id,
                   image_details, uri_i, fmt_j, fatal_answered, calls, review_images, source_images,
                   cancel_vars, all_images, photo, score, locator_vars>>

InitGroup ==
    /\ InitCommon
    /\ photo = NoPhoto
    /\ account_albums = <<>>
    /\ pc = "scanned"
    /\ \E n \in 0..MaxRows : all_images \in [1..n -> RowValues]
    /\ duplicates = <<>>
    /\ radio_checked = 0
    /\ source_images = {}
    /\ review_images = {}

NextGroup == FindDuplicateGroups

SpecGroup == InitGroup /\ [][NextGroup]_vars

----------------------------------------------------------------------------
(* Properties of a relocation session *)

RECURSIVE Flatten(_)
Flatten(groups) ==
    IF groups = <<>> THEN <<>>
    ELSE Head(groups).image_results \o Flatten(Tail(groups))

\* Every image_result written so far: those of the groups appended at line 126
\* and those of the group in progress (lines 103-111).
image_results_so_far ==
    IF pc \in {"loop", "details", "album", "collect", "verify", "manual", "raised"}
    THEN Flatten(group_results) \o group_result.image_results
    ELSE Flatten(group_results)

\* The requests that change an album or an image.
MutatingCalls == {"collectimages", "moveimages", "delete_image"}

\* The log of the current photo holds a listing of the review album that
\* contains the photo and was read after the last mutating request.
ListedAfterLastMutation(id) ==
    \E i \in 1..Len(calls) :
        /\ calls[i].kind = "get_album_images"
        /\ calls[i].album = "review"
        /\ id \in calls[i].listing
        /\ \A j \in (i + 1)..Len(calls) : calls[j].kind \notin MutatingCalls

\* C1: a photo is reported relocated, and counted in successful_copies, only
\* if a listing of the review album read after the last mutating request
\* contains its image id; an accepted request followed by a listing without
\* the photo gives a failed outcome.
C1_SuccessOnlyIfListed ==
    /\ \A k \in 1..Len(group_result.image_results) :
         LET entry == group_result.image_results[k]
         IN  (pc = "loop" /\ k = Len(group_result.image_results)
                /\ entry.image_id = image_id /\ entry.success)
                 => ListedAfterLastMutation(image_id)
    /\ successful_copies =
         Cardinality({k \in 1..Len(image_results_so_far) :
                         image_results_so_far[k].success})

\* A photo was just recorded as relocated after the listing showed it.
C1_Witness ==
    /\ pc = "loop"
    /\ group_result.image_results # <<>>
    /\ LET entry == group_result.image_results[Len(group_result.image_results)]
       IN  entry.image_id = image_id /\ entry.success
    /\ ListedAfterLastMutation(image_id)
    /\ successful_copies >= 1

\* C2: no photo is reported as moved unless it is gone from the source album
\* and present in the review album, and no photo is reported relocated while
\* the review album is unchanged.
C2_NoMoveReportedOnUnchangedAlbums ==
    \A k \in 1..Len(image_results_so_far) :
        LET entry == image_results_so_far[k]
        IN  /\ entry.message = "moved"
                => (entry.image_id \notin source_images
                      /\ entry.image_id \in review_images)
            /\ entry.success => entry.image_id \in review_images

\* A request was accepted, the listing read afterwards lacks the photo, the
\* review album holds nothing of it, and the photo is recorded as failed.
C2_Witness ==
    /\ pc = "loop"
    /\ image_id \notin review_images
    /\ \E i \in 1..Len(calls) :
         calls[i].kind = "get_album_images" /\ image_id \notin calls[i].listing
    /\ group_result.image_results # <<>>
    /\ LET entry == group_result.image_results[Len(group_result.image_results)]
       IN  entry.image_id = image_id /\ ~entry.success

\* C3: no request of a session deletes an image, and every photo of the batch
\* stays in its source album.
C3_OriginalNeverDeleted ==
    /\ \A i \in 1..Len(calls) : calls[i].kind # "delete_image"
    /\ Range(ImageIds(duplicates)) \subseteq source_images

\* A session that copied one photo with verification and fell through to the
\* manual message for another has returned.
C3_Witness ==
    /\ pc = "returned"
    /\ result.kind = "summary"
    /\ result.successful_copies >= 1
    /\ result.failed_copies >= 1

RECURSIVE TotalLen(_)
TotalLen(groups) ==
    IF groups = <<>> THEN 0 ELSE Len(Head(groups)) + TotalLen(Tail(groups))

\* C4: an error raised while one photo is relocated never leaves the batch
\* call: it becomes a failed outcome carrying the error, and the remaining
\* photos are processed.
C4_NoErrorEscapesTheBatch ==
    /\ pc # "raised"
    /\ \A k \in 1..Len(image_results_so_far) :
         image_results_so_far[k].message \in {"exception", "manual_error"}
             => ~image_results_so_far[k].success
    /\ (pc = "returned" /\ result.kind = "summary")
           => /\ result.total_images = TotalLen(batch)
              /\ Len(Flatten(result.group_results)) = TotalLen(batch)

\* The first photo ended in a caught exception and a later photo was still
\* processed.
C4_Witness ==
    /\ pc = "returned"
    /\ result.kind = "summary"
    /\ Len(Flatten(result.group_results)) >= 2
    /\ Flatten(result.group_results)[1].message = "exception"

C6_BatchIsNonKeptInOrder ==
    (pc \notin {"idle"} /\ selected_count(duplicates) = 1)
        => /\ batch = <<[i \in 1..Len(SelectSeq2(duplicates, FALSE)) |->
                          [image_id |-> SelectSeq2(duplicates, FALSE)[i].image_id]]>>
           /\ \A k \in 1..Len(image_results_so_far) :
                image_results_so_far[k].image_id =
                    SelectSeq2(duplicates, FALSE)[k].image_id
           /\ (pc = "returned" /\ result.kind = "summary")
                => ImageIds(Flatten(result.group_results)) =
                       ImageIds(SelectSeq2(duplicates, FALSE))

\* Three members, keep on the second: the first and the third were processed,
\* in that order.
C6_Witness ==
    /\ pc = "returned"
    /\ result.kind = "summary"
    /\ Len(duplicates) = 3
    /\ duplicates[2].keep
    /\ ImageIds(Flatten(result.group_results)) =
           <<duplicates[1].image_id, duplicates[3].image_id>>

\* C8: the move request comes first: every collect request of a photo is
\* preceded by a move request for it.
C8_MoveIsTriedFirst ==
    \A i \in 1..Len(calls) :
        calls[i].kind = "collectimages"
            => \E j \in 1..(i - 1) : calls[j].kind = "moveimages"

\* C7: every photo of the batch gets exactly one outcome, a record without an
\* image id included: each group's image_results is as long as the group.
C7_OneOutcomePerPhoto ==
    (pc = "returned" /\ result.kind = "summary")
        => \A g \in 1..Len(batch) :
               Len(result.group_results[g].image_results) = Len(batch[g])

\* C9: once cancellation is requested between two photos, no further photo
\* is started.
C9_CancelStopsTheBatch ==
    cancel_requested => total_images = cancel_at

\* C10: every duplicate group has at least two members, all with the same
\* non-empty hash; no two groups share a hash; rows without a hash are in no
\* group.
C10_GroupsAreDuplicatesByHash ==
    pc = "grouped"
        => /\ \A g \in 1..Len(duplicate_groups) :
                /\ Len(duplicate_groups[g]) >= 2
                /\ \A m \in 1..Len(duplicate_groups[g]) :
                     LET member == duplicate_groups[g][m]
                     IN  /\ member.md5_hash # NoHash
                         /\ member.md5_hash = duplicate_groups[g][1].md5_hash
                         /\ all_images[member.image_id].md5_hash = member.md5_hash
                /\ \A m, n \in 1..Len(duplicate_groups[g]) :
                     m # n => duplicate_groups[g][m].image_id
                                  # duplicate_groups[g][n].image_id
           /\ \A g, h \in 1..Len(duplicate_groups) :
                g # h => duplicate_groups[g][1].md5_hash
                             # duplicate_groups[h][1].md5_hash

\* Two groups were formed from rows that also hold a row without a hash.
C10_Witness ==
    /\ pc = "grouped"
    /\ Len(duplicate_groups) = 2
    /\ \E i \in 1..Len(all_images) : all_images[i].md5_hash = NoHash

\* The input rows that carry hash h, as positions.
RowsWithHash(rows, h) == {i \in 1..Len(rows) : rows[i].md5_hash = h}

\* C11: the groups are the reference grouping of the input: one group for
\* each non-empty hash carried by at least two rows, holding exactly those
\* rows, each once, in input order; groups come in the order in which their
\* hash first occurs; the input list is left as it was.
C11_GroupsEqualReferenceGrouping ==
    [][FindDuplicateGroups =>
        /\ all_images' = all_images
        /\ Len(duplicate_groups') =
             Cardinality({h \in Hashes : Cardinality(RowsWithHash(all_images, h)) >= 2})
        /\ \A g \in 1..Len(duplicate_groups') :
             LET group == duplicate_groups'[g]
                 h == group[1].md5_hash
             IN  /\ h \in Hashes
                 /\ {group[m].image_id : m \in 1..Len(group)} = RowsWithHash(all_images, h)
                 /\ Len(group) = Cardinality(RowsWithHash(all_images, h))
                 /\ \A m \in 1..Len(group) :
                      /\ group[m].md5_hash = h
                      /\ group[m].size = all_images[group[m].image_id].size
                 /\ \A m, n \in 1..Len(group) :
                      m < n => group[m].image_id < group[n].image_id
        /\ \A g, k \in 1..Len(duplicate_groups') :
             g < k => duplicate_groups'[g][1].image_id < duplicate_groups'[k][1].image_id
      ]_vars

\* Two groups with interleaved rows were formed from rows that also hold a
\* hash carried by one row only.
C11_Witness ==
    /\ pc = "grouped"
    /\ Len(duplicate_groups) = 2
    /\ duplicate_groups[2][1].image_id < duplicate_groups[1][2].image_id
    /\ \E h \in Hashes : Cardinality(RowsWithHash(all_images, h)) = 1

----------------------------------------------------------------------------
(* _apply_default_selection called on a group of its own *)

\* Members of the groups: sizes around the 5 MiB rule, with or without a
\* caption, with comparable dates or none, any keep flag.
SelectionMembers ==
    { [DuplicatePhoto(0, 1, size) EXCEPT !.caption = caption, !.keep = keep,
                                         !.date_taken = dates[1],
                                         !.date_uploaded = dates[2]] :
        size \in {2 * MiB, 6 * MiB, 7 * MiB}, caption \in {"", "sunset"},
        keep \in BOOLEAN, dates \in {<<NoDate, NoDate>>} }
    \cup
    { [DuplicatePhoto(0, 1, 2 * MiB) EXCEPT
          !.date_taken = DateString("plain", 0),
          !.date_uploaded = DateString("iso_z", 0)] }

\* image_id is the member's position in the group.
SelectionGroup(members) ==
    [i \in 1..Len(members) |-> [members[i] EXCEPT !.image_id = i]]

ApplyDefaultSelection ==
    /\ pc \in {"unselected", "selected"}
    /\ IF apply_default_selection_raises(duplicates)
       THEN pc' = "raised" /\ UNCHANGED duplicates
       ELSE /\ duplicates' = apply_default_selection(duplicates)
            /\ pc' = IF pc = "unselected" THEN "selected" ELSE "reselected"
    /\ UNCHANGED <<buttons_enabled, radio_checked, batch, review_album, group_num,
                   photo_idx,
                   counter_vars, group_result, group_results, result, image_id,
                   image_details, uri_i, fmt_j, fatal_answered, calls, review_images, source_images,
                   cancel_vars, finder_vars>>

InitSelect ==
    /\ InitCommon
    /\ photo = NoPhoto
    /\ account_albums = <<>>
    /\ pc = "unselected"
    /\ all_images = <<>>
    /\ \E n \in 1..MaxPhotos :
         \E members \in [1..n -> SelectionMembers] :
             duplicates = SelectionGroup(members)
    /\ radio_checked = 0
    /\ source_images = {}
    /\ review_images = {}

NextSelect == ApplyDefaultSelection

SpecSelect == InitSelect /\ [][NextSelect]_vars

KeptMembers(dups) == {i \in 1..Len(dups) : dups[i].keep}

----------------------------------------------------------------------------
(* get_quality_score and get_date_comparison called on one record *)

\* Records that vary in everything the score reads but the dates' distance.
ScorePhotos ==
    { [DuplicatePhoto(1, 1, size) EXCEPT
          !.title = title, !.caption = caption, !.keywords = keywords,
          !.latitude = where[1], !.longitude = where[2],
          !.date_taken = dates[1], !.date_uploaded = dates[2]] :
        size \in {0, 500 * KiB, 500 * KiB + 1, 1 * MiB, 1 * MiB + 1, 5 * MiB,
                  5 * MiB + 1},
        title \in {"", " ", "Beach"}, caption \in {"", " ", "sunset"},
        keywords \in {"", "sea, sand"},
        where \in {<<"None", "None">>, <<"0.0", "None">>, <<"0.0", "0.0">>},
        dates \in {<<NoDate, NoDate>>,
                   <<DateString("garbage", 0), DateString("iso_z", 0)>>,
                   <<DateString("blank", 0), DateString("plain", 0)>>,
                   <<DateString("iso", 0), DateString("empty", 0)>>,
                   <<DateString("iso_z", 0), DateString("iso_z", 1)>>,
                   <<DateString("plain", 0), DateString("iso", 100)>>,
                   <<DateString("plain", 0), DateString("plain", 1000)>>} }

UnitsPerDay == SecondsPerDay \div TimeUnit

\* Records with two parseable dates at every distance the bounds allow.
DatePhotos ==
    { [DuplicatePhoto(1, 1, 0) EXCEPT
          !.date_taken = DateString(forms[1], 0),
          !.date_uploaded = DateString(forms[2], t)] :
        forms \in {<<"iso_z", "iso_z">>, <<"plain", "iso">>, <<"plain", "iso_z">>},
        t \in (0 - MaxEarlyDays * UnitsPerDay)..(MaxGapDays * UnitsPerDay) }

\* The two methods are called on the record.
Score ==
    /\ pc = "unscored"
    /\ IF get_quality_score_raises(photo)
       THEN /\ pc' = "raised"
            /\ score' = [NoScore EXCEPT !.raised = TRUE,
                                        !.date_comparison = get_date_comparison(photo)]
       ELSE /\ pc' = "scored"
            /\ score' = [score |-> get_quality_score(photo),
                         date_comparison |-> get_date_comparison(photo),
                         raised |-> FALSE]
    /\ UNCHANGED <<widget_vars, batch, review_album, group_num, photo_idx,
                   counter_vars, group_result, group_results, result, image_id,
                   image_details, uri_i, fmt_j, fatal_answered, calls, review_images, source_images,
                   cancel_vars, all_images, duplicate_groups, photo, locator_vars>>

InitScore ==
    /\ InitCommon
    /\ account_albums = <<>>
    /\ pc = "unscored"
    /\ photo \in ScorePhotos \cup DatePhotos
    /\ all_images = <<>>
    /\ duplicates = <<>>
    /\ radio_checked = 0
    /\ source_images = {}
    /\ review_images = {}

NextScore == Score

SpecScore == InitScore /\ [][NextScore]_vars

\* C14: for every record get_quality_score returns the sum of the rule table
\* (size over 5 MiB 3, over 1 MiB 2, over 500 KiB 1; title 2; caption 2;
\* keywords 1; taken date 1; latitude and longitude 1; timing immediate or
\* same_day 3, recent 1), and neither a caption added nor a larger size
\* lowers it.
C14_ScoreIsRuleTableSum ==
    pc \in {"scored", "raised"}
        => /\ pc = "scored"
           /\ score.score =
                (IF photo.size > 5 * MiB THEN 3
                 ELSE IF photo.size > MiB THEN 2
                 ELSE IF photo.size > 500 * KiB THEN 1 ELSE 0)
                + (IF photo.title \in {"Beach"} THEN 2 ELSE 0)
                + (IF photo.caption \in {"sunset"} THEN 2 ELSE 0)
                + (IF photo.keywords \in {"sea, sand"} THEN 1 ELSE 0)
                + (IF photo.date_taken.form \in {"garbage", "iso_z", "iso", "plain"}
                   THEN 1 ELSE 0)
                + (IF photo.latitude = "0.0" /\ photo.longitude = "0.0" THEN 1 ELSE 0)
                + (IF score.date_comparison.status \in {"immediate", "same_day"} THEN 3
                   ELSE IF score.date_comparison.status = "recent" THEN 1 ELSE 0)
           /\ get_quality_score([photo EXCEPT !.caption = "sunset"]) >= score.score
           /\ \A size \in {500 * KiB + 1, 1 * MiB + 1, 5 * MiB + 1} :
                size >= photo.size
                    => get_quality_score([photo EXCEPT !.size = size]) >= score.score

\* C15: for two parseable timestamps the gap uploaded - taken is classified
\* as immediate (0 days, 0 hours), same_day (0 days, some hours), recent (1 to
\* 6 days), delayed (7 to 29), very_delayed (30 to 364) or archived (365 and
\* more), and recent is given for 1 to 6 days only; with a timestamp that
\* does not parse the status is unknown and timing adds nothing.
C15_GapClassification ==
    pc \in {"scored", "raised"}
        => LET gap == (photo.date_uploaded.t - photo.date_taken.t) * TimeUnit
               days == gap \div SecondsPerDay
               hours == (gap % SecondsPerDay) \div SecondsPerHour
               status == score.date_comparison.status
           IN  IF /\ photo.date_taken.form \in {"iso_z", "iso", "plain"}
                  /\ photo.date_uploaded.form \in {"iso_z", "iso", "plain"}
               THEN /\ ~score.raised
                    /\ (days = 0 /\ hours = 0) => status = "immediate"
                    /\ (days = 0 /\ hours > 0) => status = "same_day"
                    /\ days \in 1..6 => status = "recent"
                    /\ days \in 7..29 => status = "delayed"
                    /\ days \in 30..364 => status = "very_delayed"
                    /\ days >= 365 => status = "archived"
                    /\ status = "recent" => days \in 1..6
               ELSE /\ status = "unknown"
                    /\ timing_bonus(score.date_comparison) = 0

----------------------------------------------------------------------------
(* find_or_create_review_album called run after run *)

\* The keys the remote service gives to the albums it creates.
NewKeys == <<"N1", "N2", "N3", "N4">>

\* The album a successful creation request adds to the account (lines 105-113).
created_album(key, date_stamp) == Album(key, {"SmugDups", "Review"})

\* One call of find_or_create_review_album.  get_user_albums returns the
\* account's albums, or [] when its request failed (smugmug_api.py:164-165);
\* where a new album shows up in later listings is the service's choice.
FindOrCreateReviewAlbum ==
    /\ pc = "locating"
    /\ runs < MaxRuns
    /\ \E seen \in {account_albums, <<>>}, response \in CreateResponses,
          listed_first \in BOOLEAN :
         LET key == NewKeys[runs + 1]
             attempted == find_existing_smugdups_album(seen) = NoDescriptor
             applied == attempted /\ response = "created"
         IN  /\ albums_seen' = seen
             /\ review_album' = find_or_create_review_album(seen, response, key, today)
             /\ calls' = locator_calls(seen)
             /\ create_response' = IF attempted THEN response ELSE "none"
             /\ account_albums' =
                  IF ~applied THEN account_albums
                  ELSE IF listed_first
                       THEN <<created_album(key, today)>> \o account_albums
                       ELSE Append(account_albums, created_album(key, today))
             /\ created' = IF applied THEN created \cup {[key |-> key, day |-> today]}
                           ELSE created
    /\ runs' = runs + 1
    /\ UNCHANGED <<widget_vars, pc, batch, group_num, photo_idx, counter_vars,
                   group_result, group_results, result, image_id, image_details,
                   uri_i, fmt_j, fatal_answered, review_images, source_images, cancel_vars,
                   all_images, duplicate_groups, photo, score, today, gateway_vars, action_vars, thread_vars>>

\* Midnight passes between two sessions; the last session's result is gone.
NextDay ==
    /\ pc = "locating"
    /\ today < MaxDays
    /\ today' = today + 1
    /\ review_album' = NoDescriptor
    /\ albums_seen' = <<>>
    /\ calls' = <<>>
    /\ create_response' = "none"
    /\ UNCHANGED <<widget_vars, pc, batch, group_num, photo_idx, counter_vars,
                   group_result, group_results, result, image_id, image_details,
                   uri_i, fmt_j, fatal_answered, review_images, source_images, cancel_vars,
                   all_images, duplicate_groups, photo, score, account_albums,
                   created, runs, gateway_vars, action_vars, thread_vars>>

InitLocator ==
    /\ InitCommon
    /\ pc = "locating"
    /\ photo = NoPhoto
    /\ account_albums \in AlbumListings
    /\ all_images = <<>>
    /\ duplicates = <<>>
    /\ radio_checked = 0
    /\ source_images = {}
    /\ review_images = {}

NextLocator == FindOrCreateReviewAlbum \/ NextDay

SpecLocator == InitLocator /\ [][NextLocator]_vars

\* The positions of the listing whose name, lower-cased, has 'review' with
\* 'smugdups' or with 'duplicate'.
MatchingPositions(albums) ==
    {i \in 1..Len(albums) :
        LET name == {lower(word) : word \in albums[i].words}
        IN  "review" \in name /\ ("smugdups" \in name \/ "duplicate" \in name)}

\* C16: when the listing holds an album whose name matches, the lookup
\* returns the first such album of the listing, tagged found_existing with
\* its key, and sends no creation request.
C16_FirstMatchingAlbumIsFound ==
    (calls # <<>> /\ MatchingPositions(albums_seen) # {})
        => /\ review_album.method = "found_existing"
           /\ \E i \in MatchingPositions(albums_seen) :
                /\ \A j \in MatchingPositions(albums_seen) : i <= j
                /\ review_album.album_key = albums_seen[i].id
           /\ \A c \in 1..Len(calls) : calls[c].kind # "create_album"

\* The listing held two matching albums, one written in capitals, behind none
\* that does not match, and the first was returned.
C16_Witness ==
    /\ calls # <<>>
    /\ Cardinality(MatchingPositions(albums_seen)) >= 2
    /\ \E i \in MatchingPositions(albums_seen) : "REVIEW" \in albums_seen[i].words
    /\ review_album.method = "found_existing"
    /\ review_album.album_key = albums_seen[1].id

\* C17: a lookup sends at most one creation request, and once a lookup has
\* created the review album every later lookup of the same day that sees
\* this album in the listing returns it as found_existing with its key and
\* sends no creation request.
C17_LookupConvergesOnCreatedAlbum ==
    /\ Cardinality({c \in 1..Len(calls) : calls[c].kind = "create_album"}) <= 1
    /\ \A album \in created :
         (/\ album.day = today
          /\ \E i \in 1..Len(albums_seen) : albums_seen[i].id = album.key)
             => /\ review_album.method = "found_existing"
                /\ review_album.album_key = album.key
                /\ \A c \in 1..Len(calls) : calls[c].kind # "create_album"

\* C18: when no album of the listing matches and the creation request
\* fails, the lookup returns a manual_required descriptor without album key,
\* with instructions and with a suggested album name and URL name that carry
\* the current date.
C18_ManualDescriptorWhenCreationFails ==
    (/\ calls # <<>>
     /\ MatchingPositions(albums_seen) = {}
     /\ create_response \in {"ok_without_key", "rejected", "exception"})
        => /\ review_album.method = "manual_required"
           /\ review_album.manual_creation_needed
           /\ review_album.album_key = "None"
           /\ review_album.instructions # ""
           /\ review_album.suggested_album_name = Name("SmugDups Review", today)
           /\ review_album.suggested_url_name = Name("SmugDups-review", today)

\* On the second day a creation request was rejected while the listing held
\* an album that does not match.
C18_Witness ==
    /\ today = 2
    /\ albums_seen # <<>>
    /\ MatchingPositions(albums_seen) = {}
    /\ create_response = "rejected"
    /\ review_album.method = "manual_required"
    /\ review_album.suggested_album_name.date_stamp = 2

----------------------------------------------------------------------------
(* The batch summary *)

RECURSIVE SumOf(_, _)
SumOf(groups, field) ==
    IF groups = <<>> THEN 0 ELSE Head(groups)[field] + SumOf(Tail(groups), field)

Distance(a, b) == IF a >= b THEN a - b ELSE b - a

\* C19: in every summary total_images is the number of photos of the input
\* groups, successful_copies + failed_copies = total_images, the groups'
\* successful and failed counts add up to the batch counts, and success_rate
\* is successful_copies / total_images (to the printed tenth of a percent),
\* 0 for an empty batch.
C19_SummaryCountsAddUp ==
    (pc = "returned" /\ result.kind = "summary")
        => /\ result.total_images = TotalLen(batch)
           /\ result.successful_copies + result.failed_copies = result.total_images
           /\ SumOf(result.group_results, "successful_copies")
                  = result.successful_copies
           /\ SumOf(result.group_results, "failed_copies") = result.failed_copies
           /\ SumOf(result.group_results, "total_images") = result.total_images
           /\ IF result.total_images = 0
              THEN result.success_rate = 0
              ELSE 2 * Distance(result.success_rate * result.total_images,
                                1000 * result.successful_copies)
                       <= result.total_images

\* A summary of two groups, one photo copied and one failed: half of the
\* batch succeeded.
C19_Witness ==
    /\ pc = "returned"
    /\ result.kind = "summary"
    /\ Len(result.group_results) = 2
    /\ result.successful_copies = 1
    /\ result.failed_copies = 1
    /\ result.success_rate = 500

----------------------------------------------------------------------------
(* The verification read *)

\* The reads of the review album's listing that did not show the photo at hand.
MissedReads ==
    {i \in 1..Len(calls) : /\ calls[i].kind = "get_album_images"
                           /\ image_id \notin calls[i].listing}

\* C20: after an accepted request a verification read that does not show
\* the photo is repeated before the copy is given up, so a photo that is in
\* the review album and shows on the second read is not reported failed.
C20_VerificationReadIsRetried ==
    (pc = "manual" /\ image_id \in review_images)
        => \A i \in MissedReads :
               \E j \in (i + 1)..Len(calls) : calls[j].kind = "get_album_images"

----------------------------------------------------------------------------
(* The request shapes of the collect tier *)

\* C21: once a collect request of the photo was answered with a fatal error
\* code (4, 5, 15, 401, 403, 404) the tier is over: no further request shape
\* is tried for the photo, which goes to the manual fallback.
C21_FatalErrorEndsTheTier ==
    fatal_answered => pc \notin {"collect", "verify"}

\* The request shapes after the one the collect loop stands at.
untried_variants ==
    (all_uri_formats(image_details) - uri_i) * data_formats + (data_formats - fmt_j)

\* C22: a request shape that was answered OK but that the listing does not
\* confirm is followed by the next shape: the tier is not given up after a
\* failed verification while untried shapes remain.
C22_UnconfirmedVariantIsFollowedByTheNext ==
    (pc = "manual" /\ MissedReads # {}) => untried_variants = 0

----------------------------------------------------------------------------
(* SmugMugAPIAdapter._make_request: smugmug_api.py *)

\* The methods a caller may pass; "TRACE" stands for any other word.
Methods == {"GET", "POST", "DELETE", "PUT", "PATCH", "TRACE"}

\* Lines 66-83: the methods a request is sent for; any other raises ValueError.
supported_methods == {"GET", "POST", "DELETE", "PUT", "PATCH"}

\* One answer to an HTTP request: the status (0: requests raised, a timeout
\* or a connection error), whether a redirect names a Location, whether the
\* body is non-empty, and whether it parses as JSON.
HttpResponse(status, location, text, json) ==
    [status |-> status, location |-> location, text |-> text, json |-> json]

HttpResponses ==
    { HttpResponse(0, FALSE, FALSE, FALSE),
      HttpResponse(200, FALSE, TRUE, TRUE),
      HttpResponse(200, FALSE, TRUE, FALSE),
      HttpResponse(204, FALSE, FALSE, FALSE),
      HttpResponse(202, FALSE, TRUE, TRUE),
      HttpResponse(302, TRUE, FALSE, FALSE),
      HttpResponse(302, FALSE, FALSE, FALSE),
      HttpResponse(429, FALSE, TRUE, TRUE),
      HttpResponse(404, FALSE, TRUE, TRUE) }

\* Line 102, `if not response`: a requests.Response is false when its status
\* is 400 or above (Response.__bool__ returns Response.ok).
response_is_false(response) == response.status >= 400

\* _handle_response_with_redirects, lines 102-143, in the order of its tests:
\* what it returns, or the request it makes next.
handle_response_with_redirects(response) ==
    IF response_is_false(response) THEN [do |-> "return", value |-> "None"]
    ELSE IF 300 <= response.status /\ response.status < 400
    THEN IF response.location THEN [do |-> "redirect", value |-> "None"]
         ELSE [do |-> "return", value |-> "None"]
    ELSE IF response.status \in {200, 201, 204}
    THEN IF ~response.text THEN [do |-> "return", value |-> "status_success"]
         ELSE IF response.json THEN [do |-> "return", value |-> "json"]
         ELSE [do |-> "return", value |-> "status_success_text"]
    ELSE IF response.status = 429 THEN [do |-> "backoff", value |-> "None"]
    ELSE [do |-> "return", value |-> "None"]

recursion_error_one_call_late(depth) == depth > RecursionLimit

\* The interpreter raises RecursionError when one more _make_request is
\* called at the recursion limit; it is an Exception, caught at line 91.
recursion_error(depth) == depth >= RecursionLimit

\* A caller calls _make_request(url, method, params, data).
BeginRequest ==
    /\ gw_pc = "idle"
    /\ gw_method' \in Methods
    /\ gw_pc' = "request"
    /\ gw_depth' = 1
    /\ gw_log' = <<>>
    /\ gw_backoffs' = 0
    /\ gw_result' = "None"
    /\ UNCHANGED <<widget_vars, pc, batch, review_album, group_num, photo_idx,
                   counter_vars, group_result, group_results, result, image_id,
                   image_details, uri_i, fmt_j, fatal_answered, calls,
                   review_images, source_images, cancel_vars, all_images,
                   duplicate_groups, photo, score, today, account_albums,
                   albums_seen, created, create_response, runs, action_vars,
                   thread_vars>>

\* One _make_request (lines 44-93) with _handle_response_with_redirects up to
\* its return or its nested _make_request call.  Every exception is caught at
\* line 91 and None is returned, which every enclosing call returns in turn.
MakeRequest ==
    /\ gw_pc = "request"
    /\ IF gw_method \notin supported_methods
       THEN /\ gw_result' = "None"
            /\ gw_pc' = "returned"
            /\ UNCHANGED <<gw_depth, gw_log, gw_backoffs>>
       ELSE \E response \in HttpResponses :
              LET next == handle_response_with_redirects(response)
                  nested == next.do \in {"redirect", "backoff"}
              IN  /\ gw_log' = Append(gw_log, response.status)
                  /\ gw_backoffs' = IF response.status # 0 /\ next.do = "backoff"
                                    THEN gw_backoffs + 1 ELSE gw_backoffs
                  /\ IF response.status = 0
                     THEN /\ gw_result' = "None"
                          /\ gw_pc' = "returned"
                          /\ UNCHANGED gw_depth
                     ELSE IF nested /\ ~recursion_error(gw_depth)
                     THEN /\ gw_depth' = gw_depth + 1
                          /\ UNCHANGED <<gw_pc, gw_result>>
                     ELSE /\ gw_result' = next.value
                          /\ gw_pc' = "returned"
                          /\ UNCHANGED gw_depth
    /\ UNCHANGED <<gw_method, widget_vars, pc, batch, review_album, group_num,
                   photo_idx, counter_vars, group_result, group_results, result,
                   image_id, image_details, uri_i, fmt_j, fatal_answered, calls,
                   review_images, source_images, cancel_vars, all_images,
                   duplicate_groups, photo, score, today, account_albums,
                   albums_seen, created, create_response, runs, action_vars,
                   thread_vars>>

InitGateway ==
    /\ InitCommon
    /\ photo = NoPhoto
    /\ account_albums = <<>>
    /\ pc = "gateway"
    /\ all_images = <<>>
    /\ duplicates = <<>>
    /\ radio_checked = 0
    /\ source_images = {}
    /\ review_images = {}

NextGateway == BeginRequest \/ MakeRequest

SpecGateway == InitGateway /\ [][NextGateway]_vars

\* The interpreter goes on with a call that was started.
SpecGatewayFair == SpecGateway /\ WF_vars(MakeRequest)

\* C23: a 429 answer is followed by one longer wait and exactly one more
\* request, the same call again: it is neither dropped nor repeated twice.
C23_RateLimitedCallIsRetriedOnce ==
    gw_pc = "returned"
        => \A i \in 1..Len(gw_log) :
               gw_log[i] = 429
                   => IF i > 1 /\ gw_log[i - 1] = 429
                      THEN i = Len(gw_log)
                      ELSE i < Len(gw_log) /\ gw_backoffs >= 1

----------------------------------------------------------------------------
(* The album lookup when the listing fails *)

\* C30: a lookup sends a creation request only when no album of the account
\* matches the review pattern: a listing that could not be retrieved does not
\* count as an account without review album.  (After the request the only
\* matching album is the one this lookup created.)
C30_NoCreationWhileAMatchExists ==
    (\E c \in 1..Len(calls) : calls[c].kind = "create_album")
        => \A i \in MatchingPositions(account_albums) :
               account_albums[i].id = NewKeys[runs]

----------------------------------------------------------------------------
(* What the widget shows of a relocation *)

\* C29: when the summary counts at least one relocated photo the widget
\* reports success with that number and marks the group processed; the
\* 'photos need manual moving' message is shown only when no photo succeeded.
C29_WidgetReportsTheEngineCounts ==
    (pc = "shown" /\ result.kind = "summary")
        => /\ result.successful_copies > 0
                => /\ feedback.success = "True"
                   /\ feedback.count = result.successful_copies
                   /\ processed
           /\ feedback.message = "need_manual_moving"
                => result.successful_copies = 0

----------------------------------------------------------------------------
(* DuplicateGroupWidget.delete_selected_action: gui/duplicate_widget.py *)

\* Line 826.
max_retries == 3

\* What the DELETE request of delete_image_with_details may come back with:
\* a success body, a body whose Message names a used nonce, a body with
\* another Message, no response (None from _make_request).
DeleteResponses == {"deleted", "nonce", "error", "none"}

\* smugmug_api.py:282-313: (success, error_message).
delete_image_with_details(response) ==
    CASE response = "deleted" ->
             [success |-> TRUE, error_message |-> "Image deleted successfully"]
      [] response = "nonce" ->
             [success |-> FALSE, error_message |-> "oauth_problem=nonce_used"]
      [] response = "error" ->
             [success |-> FALSE, error_message |-> "Unexpected response"]
      [] response = "none" ->
             [success |-> FALSE, error_message |-> "No response from server"]

\* Line 841: "nonce" in error_message.lower().
mentions_nonce(error_message) == error_message = "oauth_problem=nonce_used"

\* What the Delete action leaves alone: the relocation session.
session_vars == <<batch, review_album, group_num, photo_idx, counter_vars,
                  group_result, group_results, result, image_id, image_details,
                  uri_i, fmt_j, fatal_answered, calls, review_images, cancel_vars,
                  all_images, duplicate_groups, photo, score, today,
                  account_albums, albums_seen, created, create_response, runs,
                  gateway_vars, thread_vars>>

\* Lines 791-819: the Delete button is clicked; nothing is deleted unless
\* exactly one member is kept.
delete_selected_action ==
    /\ pc = "idle"
    /\ buttons_enabled
    /\ IF selected_count(duplicates) = 0
       THEN /\ ShowFeedback(Feedback("no_photo_selected", 0, "False"), FALSE)
            /\ UNCHANGED <<pc, delete_vars>>
       ELSE IF selected_count(duplicates) > 1
       THEN /\ ShowFeedback(Feedback("multiple_photos_selected", 0, "False"), FALSE)
            /\ UNCHANGED <<pc, delete_vars>>
       ELSE /\ photos_to_delete' = SelectSeq2(duplicates, FALSE)
            /\ ShowFeedback(Feedback("deleting", Len(duplicates) - 1, "None"), FALSE)
            /\ deletion_results' = <<>>
            /\ delete_requests' = <<>>
            /\ delete_idx' = 1
            /\ attempt' = 0
            /\ pc' = "deleting"
    /\ UNCHANGED <<duplicates, radio_checked, skipped, source_images, session_vars>>

\* Lines 828-849: one pass of `for attempt in range(max_retries)` with its
\* request and, when the loop is left, the test that follows it.
DeleteImage ==
    /\ pc = "deleting"
    /\ delete_idx <= Len(photos_to_delete)
    /\ \E response \in DeleteResponses :
         LET key == photos_to_delete[delete_idx].image_id
             answer == delete_image_with_details(response)
             entry == [image_id |-> key, success |-> answer.success]
             retry == /\ ~answer.success
                      /\ mentions_nonce(answer.error_message)
             in_loop == IF answer.success \/ ~retry THEN <<entry>> ELSE <<>>
             after_loop == IF ~answer.success /\ attempt = max_retries - 1
                           THEN <<entry>> ELSE <<>>
         IN  /\ delete_requests' = Append(delete_requests, key)
             /\ source_images' = IF response = "deleted"
                                 THEN source_images \ {key} ELSE source_images
             /\ IF retry /\ attempt < max_retries - 1
                THEN /\ attempt' = attempt + 1
                     /\ UNCHANGED <<delete_idx, deletion_results>>
                ELSE /\ deletion_results' = deletion_results \o in_loop \o after_loop
                     /\ delete_idx' = delete_idx + 1
                     /\ attempt' = 0
    /\ UNCHANGED <<duplicates, buttons_enabled, radio_checked, pc, feedback,
                   processed, skipped, skip_enabled, photos_to_delete, session_vars>>

\* Lines 851-863: the summary of the deletions is shown; the handler returns
\* and its locals are gone.
FinishDelete ==
    /\ pc = "deleting"
    /\ delete_idx > Len(photos_to_delete)
    /\ LET successful_deletions ==
                {i \in 1..Len(deletion_results) : deletion_results[i].success}
       IN  IF successful_deletions # {}
           THEN ShowFeedback(Feedback("deleted", Cardinality(successful_deletions),
                                      "True"), FALSE)
           ELSE ShowFeedback(Feedback("none_deleted", 0, "False"), FALSE)
    /\ pc' = "idle"
    /\ photos_to_delete' = <<>>
    /\ delete_idx' = 1
    /\ attempt' = 0
    /\ deletion_results' = <<>>
    /\ delete_requests' = <<>>
    /\ UNCHANGED <<duplicates, radio_checked, skipped, source_images, session_vars>>

\* A duplicate group whose members may be one image listed in several
\* albums: get_album_images names a row by its ImageKey (smugmug_api.py:219),
\* and a copy collected into the review album is listed there under the key
\* of its original (_verify_image_in_album finds it by that key).  Member i
\* is an image of its own or the image of the first member.
DeleteGroups ==
    { [i \in 1..n |-> [image_id |-> IF i \in shared THEN 1 ELSE i,
                         keep |-> (i = k)]] :
        n \in 2..MaxPhotos, k \in 1..MaxPhotos, shared \in SUBSET (2..MaxPhotos) }

InitDelete ==
    /\ InitCommon
    /\ photo = NoPhoto
    /\ account_albums = <<>>
    /\ pc = "idle"
    /\ all_images = <<>>
    /\ duplicates \in {g \in DeleteGroups : selected_count(g) = 1}
    /\ radio_checked = CHOOSE i \in 1..Len(duplicates) : duplicates[i].keep
    /\ source_images = Range(ImageIds(duplicates))
    /\ review_images = {}

NextDelete ==
    \/ \E index \in 1..MaxPhotos : on_radio_toggled(index)
    \/ skip_group_action
    \/ delete_selected_action
    \/ DeleteImage
    \/ FinishDelete

SpecDelete == InitDelete /\ [][NextDelete]_vars

\* C27: while a Delete action runs exactly one member is kept, and every
\* delete request names the image of a member that is not kept: never the
\* image of the kept member, and so never every copy of the group.
C27_KeptImageIsNeverDeleted ==
    pc = "deleting"
        => /\ selected_count(duplicates) = 1
           /\ \A r \in 1..Len(delete_requests) :
                /\ \E i \in 1..Len(duplicates) :
                     ~duplicates[i].keep /\ duplicates[i].image_id = delete_requests[r]
                /\ \A i \in 1..Len(duplicates) :
                     duplicates[i].keep => duplicates[i].image_id # delete_requests[r]

\* C28: a photo gets at most max_retries delete requests and exactly one
\* entry in deletion_results, so when the loop is done the results are as
\* many as the photos to delete.
C28_OneDeletionResultPerPhoto ==
    pc = "deleting"
        => /\ Len(deletion_results) = delete_idx - 1
           /\ Len(delete_requests) <= max_retries * (delete_idx - 1) + attempt

----------------------------------------------------------------------------
(* The GUI thread and the scan thread: gui/main_window.py, core/duplicate_finder.py *)

\* Where the handler the GUI thread runs has got to.
Position == <<pc, group_num, photo_idx, Len(calls), delete_idx, Len(delete_requests)>>

\* The remote request the GUI thread issues next from where it is: the first
\* request of the step that follows.  find_or_create_review_album stands for
\* its listing request and the creation request that may follow it.
request_kind ==
    CASE pc = "setup" -> "find_or_create_review_album"
      [] pc = "details" -> "get_image_details"
      [] pc = "album" -> "get_album_info"
      [] pc = "collect" /\ image_details # "bad_uris" -> "collectimages"
      [] pc = "verify" -> "get_album_images"
      [] pc = "manual" -> "debug_get_image"
      [] pc = "deleting" /\ delete_idx <= Len(photos_to_delete) -> "delete_image"
      [] OTHER -> "none"

\* Requests that change the account: POST album creation, POST collectimages,
\* DELETE image.
mutating_kinds == {"find_or_create_review_album", "collectimages", "delete_image"}

Ticket(thread, kind, at, n) == [thread |-> thread, kind |-> kind, at |-> at, n |-> n]

\* A request of the GUI thread is in flight until the step that takes its
\* response has moved the handler on.
gui_in_flight == {t \in in_flight : t.thread = "gui" /\ t.at = Position}
scan_in_flight == {t \in in_flight : t.thread = "scan"}
InFlight == gui_in_flight \cup scan_in_flight

gui_thread_returns_before_the_response == TRUE

\* The handlers call the engine and the gateway directly
\* (duplicate_widget.py:730, 835) and requests' session.get/post/delete
\* returns with the response: the thread sends nothing while it waits.
gui_thread_is_free == gui_in_flight = {}

\* The GUI thread sends the request of its next step.
GuiSend ==
    /\ request_kind # "none"
    /\ gui_thread_is_free
    /\ in_flight' = InFlight \cup {Ticket("gui", request_kind, Position,
                                           Cardinality(gui_in_flight) + 1)}
    /\ UNCHANGED <<widget_vars, pc, batch, review_album, group_num, photo_idx,
                   counter_vars, group_result, group_results, result, image_id,
                   image_details, uri_i, fmt_j, fatal_answered, calls,
                   review_images, source_images, cancel_vars, all_images,
                   duplicate_groups, photo, score, today, account_albums,
                   albums_seen, created, create_response, runs, gateway_vars,
                   action_vars, scan_pc, scan_left>>

\* _start_duplicate_scan, lines 538-557: the Scan button starts the
\* DuplicateFinderThread on the selected albums and is disabled while it runs.
\* The handler runs on the GUI thread, between two other handlers.
start_duplicate_scan ==
    /\ pc \in {"idle", "shown"}
    /\ scan_pc \in {"stopped", "finished"}
    /\ scan_left' \in 1..MaxAlbums
    /\ scan_pc' = "running"
    /\ UNCHANGED <<widget_vars, pc, batch, review_album, group_num, photo_idx,
                   counter_vars, group_result, group_results, result, image_id,
                   image_details, uri_i, fmt_j, fatal_answered, calls,
                   review_images, source_images, cancel_vars, all_images,
                   duplicate_groups, photo, score, today, account_albums,
                   albums_seen, created, create_response, runs, gateway_vars,
                   action_vars, in_flight>>

\* DuplicateFinderThread.run, lines 32-39: get_album_images for the next album.
ScanSend ==
    /\ scan_pc = "running"
    /\ scan_left > 0
    /\ scan_in_flight = {}
    /\ in_flight' = in_flight \cup {Ticket("scan", "get_album_images", <<scan_left>>, 1)}
    /\ UNCHANGED <<widget_vars, pc, batch, review_album, group_num, photo_idx,
                   counter_vars, group_result, group_results, result, image_id,
                   image_details, uri_i, fmt_j, fatal_answered, calls,
                   review_images, source_images, cancel_vars, all_images,
                   duplicate_groups, photo, score, today, account_albums,
                   albums_seen, created, create_response, runs, gateway_vars,
                   action_vars, scan_pc, scan_left>>

\* Lines 39-45: the listing of the album has come back.
ScanReceive ==
    /\ scan_pc = "running"
    /\ scan_in_flight # {}
    /\ in_flight' = in_flight \ scan_in_flight
    /\ scan_left' = scan_left - 1
    /\ UNCHANGED <<widget_vars, pc, batch, review_album, group_num, photo_idx,
                   counter_vars, group_result, group_results, result, image_id,
                   image_details, uri_i, fmt_j, fatal_answered, calls,
                   review_images, source_images, cancel_vars, all_images,
                   duplicate_groups, photo, score, today, account_albums,
                   albums_seen, created, create_response, runs, gateway_vars,
                   action_vars, scan_pc>>

\* Lines 47-58: the groups are computed locally and the thread ends;
\* _scan_finished (main_window.py:654-658) enables the Scan button again.
ScanFinished ==
    /\ scan_pc = "running"
    /\ scan_left = 0
    /\ scan_in_flight = {}
    /\ scan_pc' = "finished"
    /\ UNCHANGED <<widget_vars, pc, batch, review_album, group_num, photo_idx,
                   counter_vars, group_result, group_results, result, image_id,
                   image_details, uri_i, fmt_j, fatal_answered, calls,
                   review_images, source_images, cancel_vars, all_images,
                   duplicate_groups, photo, score, today, account_albums,
                   albums_seen, created, create_response, runs, gateway_vars,
                   action_vars, in_flight, scan_left>>

\* A group of three members with the first one kept: a batch of two photos.
InitThreads ==
    /\ InitCommon
    /\ photo = NoPhoto
    /\ account_albums = <<>>
    /\ pc = "idle"
    /\ all_images = <<>>
    /\ duplicates = <<[image_id |-> 1, keep |-> TRUE],
                      [image_id |-> 2, keep |-> FALSE],
                      [image_id |-> 3, keep |-> FALSE]>>
    /\ radio_checked = 1
    /\ source_images = Range(ImageIds(duplicates))
    /\ review_images = {}

\* The GUI thread runs one handler at a time and takes a step that starts
\* with a request once the response is there; the scan thread runs beside it.
NextThreads ==
    \/ move_selected_to_review_action
    \/ delete_selected_action
    \/ GuiSend
    \/ gui_in_flight # {} /\ SetUpReviewAlbum
    \/ gui_in_flight # {} /\ GetImageDetails
    \/ gui_in_flight # {} /\ GetAlbumInfo
    \/ gui_in_flight # {} /\ CollectRequest
    \/ gui_in_flight # {} /\ VerifyCopy
    \/ gui_in_flight # {} /\ ManualFallback
    \/ gui_in_flight # {} /\ DeleteImage
    \/ StartGroup
    \/ BeginPhoto
    \/ EndGroup
    \/ ReturnSummary
    \/ CollectSetupFails
    \/ show_move_results
    \/ FinishDelete
    \/ start_duplicate_scan
    \/ ScanSend
    \/ ScanReceive
    \/ ScanFinished

SpecThreads == InitThreads /\ [][NextThreads]_vars

\* C25: at most one request that changes the account is in flight, whatever
\* the scan thread does meanwhile, and a request for a photo of a batch is in
\* flight only when every photo before it in the group has its outcome.
C25_OneMutationInFlight ==
    /\ Cardinality({t \in InFlight : t.kind \in mutating_kinds}) <= 1
    /\ \A t \in scan_in_flight : t.kind \notin mutating_kinds
    /\ \A t \in gui_in_flight :
         pc \in {"details", "album", "collect", "verify", "manual"}
             => group_result.successful_copies + group_result.failed_copies
                    = photo_idx - 1

\* The collect request of the second photo of a batch is in flight while the
\* scan thread waits for an album listing.
C25_Witness ==
    /\ scan_in_flight # {}
    /\ photo_idx = 2
    /\ \E t \in gui_in_flight : t.kind = "collectimages"

----------------------------------------------------------------------------
(* The keep flags under the user's selections *)

\* C26 as stated: at most one member is kept; exactly one unless the group was
\* skipped, and none in a skipped group.
C26_KeepIsExclusiveAndNoneWhenSkipped ==
    /\ selected_count(duplicates) <= 1
    /\ ~skipped => selected_count(duplicates) = 1
    /\ skipped => selected_count(duplicates) = 0

\* C26, amended: at most one member is kept in every state; exactly one
\* unless the group was skipped; a skipped group has none or, once a radio
\* button was selected after the skip, the member of that button.
C26_KeepIsExclusive ==
    /\ selected_count(duplicates) <= 1
    /\ ~skipped => selected_count(duplicates) = 1
    /\ \A i \in 1..Len(duplicates) : duplicates[i].keep => i = radio_checked

\* A group was skipped and a radio button selected afterwards.
C26_Witness ==
    /\ skipped
    /\ selected_count(duplicates) = 1
    /\ Len(duplicates) = MaxPhotos

====
